---------------------------- MODULE Spec2Model ----------------------------
(***************************************************************************)
(* A model of the free-flying camera of learnopengl (camera.cpp) and of    *)
(* the way main.cpp drives it (render loop, cursor and scroll callbacks).  *)
(*                                                                         *)
(* Numbers.  The program computes in float/double; the model computes in   *)
(* fixed point:                                                            *)
(*   - direction vectors and sin/cos values: integers in units of 1/Scale  *)
(*   - angles (yaw, pitch):  tenths of a degree                            *)
(*   - mouseSensitivity:     tenths (0.1f is 1, 0.2f is 2)                 *)
(*   - cursor offsets:       whole pixels                                  *)
(*   - deltaTime, glfwGetTime: tenths of a second                          *)
(*   - movementSpeed:        tenths of a world unit per second             *)
(*   - velocity:             hundredths (movementSpeed * deltaTime)        *)
(*   - position:             units of 1/(Scale*100) of a world unit, so    *)
(*                           that front * velocity is an exact integer     *)
(*   - zoom, scroll offsets: whole degrees                                 *)
(***************************************************************************)
EXTENDS Integers, Sequences, FiniteSets

VARIABLES
    camera,      \* the Camera object (main.cpp:30), a record of its fields
    view,        \* the matrix last returned by GetViewMatrix (main.cpp:202, 238)
    projection,  \* the projection matrix of main (main.cpp:206, 234)
    deltaTime,   \* main.cpp:33
    lastFrame,   \* main.cpp:34
    firstMouse,  \* main.cpp:37
    lastX,       \* main.cpp:293 (static local of mouse_callback)
    lastY,       \* main.cpp:294
    shouldClose, \* the window's close flag (glfwSetWindowShouldClose)
    pc,          \* where main is: "processInput", "render", "pollEvents", "done";
                 \* for a client of the class alone, the member it last called
    mouseLog,    \* every mouse_callback invocation: cursor position and offsets passed on
    scrollLog,   \* every scroll callback invocation: its yoffset
    calls        \* number of Camera member calls made by the client (class-level runs)

vars == <<camera, view, projection, deltaTime, lastFrame, firstMouse, lastX, lastY,
          shouldClose, pc, mouseLog, scrollLog, calls>>

appVars == <<projection, deltaTime, lastFrame, firstMouse, lastX, lastY,
             shouldClose, mouseLog, scrollLog>>

---------------------------------------------------------------------------
(* Bounds of the model *)

MaxCalls == 2
MaxTime == 2
MaxMouseEvents == 3
MaxScrollEvents == 2

---------------------------------------------------------------------------
(* Program constants *)

WIDTH == 600
HEIGHT == 600

DEFAULT_YAW == -900
DEFAULT_PITCH == 0
DEFAULT_SPEED == 25
DEFAULT_SENSITIVITY == 1
DEFAULT_ZOOM == 45

PitchMax == 890
ZoomMin == 1
ZoomMax == 45

MainSensitivity == 2
MainSpeed == 20
MainFov == 45

---------------------------------------------------------------------------
(* Fixed-point arithmetic *)

\* a float 1.0 of a direction vector or of a sin/cos value
Scale == 10000

Abs(x) == IF x < 0 THEN -x ELSE x

\* a / b rounded to the nearest integer, b > 0
RoundDiv(a, b) == IF a >= 0 THEN (2 * a + b) \div (2 * b)
                            ELSE -((2 * (-a) + b) \div (2 * b))

RECURSIVE SqrtSearch(_, _, _)
SqrtSearch(n, lo, hi) ==
    IF lo >= hi THEN lo
    ELSE LET mid == (lo + hi + 1) \div 2
         IN IF mid * mid <= n THEN SqrtSearch(n, mid, hi)
                              ELSE SqrtSearch(n, lo, mid - 1)

\* sqrt(n) rounded to the nearest integer, 0 <= n < 2^30
Sqrt(n) == LET r == SqrtSearch(n, 0, 32767)
           IN IF n - r * r > r THEN r + 1 ELSE r

\* glm::radians: tenths of a degree to radians, in units of 1/Scale
Radians(a) == RoundDiv(a * 31416, 1800)

\* sin and cos of x radians (units of 1/Scale), 0 <= x <= pi/4, by their series
SinSeries(x) ==
    LET x2 == RoundDiv(x * x, Scale)
        t3 == Scale - RoundDiv(x2, 42)
        t2 == Scale - RoundDiv(x2 * t3, 20 * Scale)
        t1 == Scale - RoundDiv(x2 * t2, 6 * Scale)
    IN RoundDiv(x * t1, Scale)

CosSeries(x) ==
    LET x2 == RoundDiv(x * x, Scale)
        t3 == Scale - RoundDiv(x2, 30)
        t2 == Scale - RoundDiv(x2 * t3, 12 * Scale)
    IN Scale - RoundDiv(x2 * t2, 2 * Scale)

\* sin of a first-quadrant angle, 0 <= a <= 900 tenths of a degree
SinQ(a) == IF a <= 450 THEN SinSeries(Radians(a)) ELSE CosSeries(Radians(900 - a))

\* sin and cos of an angle in tenths of a degree, result in units of 1/Scale
Sin(a) ==
    LET m == a % 3600
    IN IF m <= 900 THEN SinQ(m)
       ELSE IF m <= 1800 THEN SinQ(1800 - m)
       ELSE IF m <= 2700 THEN -SinQ(m - 1800)
       ELSE -SinQ(3600 - m)

Cos(a) == Sin(a + 900)

---------------------------------------------------------------------------
(* glm::vec3 *)

Vec3(x, y, z) == <<x, y, z>>

VecAdd(a, b) == <<a[1] + b[1], a[2] + b[2], a[3] + b[3]>>

VecSub(a, b) == <<a[1] - b[1], a[2] - b[2], a[3] - b[3]>>

VecScale(a, k) == <<a[1] * k, a[2] * k, a[3] * k>>

\* dot product of two vectors in units of 1/Scale, in units of 1/Scale^2
Dot(a, b) == a[1] * b[1] + a[2] * b[2] + a[3] * b[3]

\* glm::cross of two vectors in units of 1/Scale
Cross(a, b) == << RoundDiv(a[2] * b[3] - a[3] * b[2], Scale),
                  RoundDiv(a[3] * b[1] - a[1] * b[3], Scale),
                  RoundDiv(a[1] * b[2] - a[2] * b[1], Scale) >>

\* stands for what glm::normalize returns for a vector of length 0 (0 * inf, not a number)
NaNVec == <<0, 0, 0>>

\* glm::normalize
Normalize(v) ==
    LET len == Sqrt(Dot(v, v))
    IN IF len = 0 THEN NaNVec
       ELSE << RoundDiv(v[1] * Scale, len),
               RoundDiv(v[2] * Scale, len),
               RoundDiv(v[3] * Scale, len) >>


---------------------------------------------------------------------------
(* class Camera (camera.cpp) *)

WorldUpY == Vec3(0, Scale, 0)

\* one world unit in the units of position
PosUnit == Scale * 100

\* updateCameraVectors with right left as the bare cross product
updateCameraVectorsRightNotNormalized(c) ==
    LET new_front == Vec3(RoundDiv(Cos(c.yaw) * Cos(c.pitch), Scale),
                          Sin(c.pitch),
                          RoundDiv(Sin(c.yaw) * Cos(c.pitch), Scale))
        f == Normalize(new_front)
        r == Cross(f, c.worldUp)
        u == Normalize(Cross(r, f))
    IN [c EXCEPT !.front = f, !.right = r, !.up = u]

\* Camera::updateCameraVectors
updateCameraVectors(c) ==
    LET new_front == Vec3(RoundDiv(Cos(c.yaw) * Cos(c.pitch), Scale),
                          Sin(c.pitch),
                          RoundDiv(Sin(c.yaw) * Cos(c.pitch), Scale))
        f == Normalize(new_front)
        r == Normalize(Cross(f, c.worldUp))
        u == Normalize(Cross(r, f))
    IN [c EXCEPT !.front = f, !.right = r, !.up = u]

\* Camera::Camera(glm::vec3 position, glm::vec3 worldUp, float yaw, float pitch)
CameraVec(position, worldUp, yaw, pitch) ==
    updateCameraVectors(
        [ position |-> position,
          front |-> Vec3(0, 0, -Scale),
          up |-> NaNVec,
          right |-> NaNVec,
          worldUp |-> worldUp,
          yaw |-> yaw,
          pitch |-> pitch,
          movementSpeed |-> DEFAULT_SPEED,
          mouseSensitivity |-> DEFAULT_SENSITIVITY,
          zoom |-> DEFAULT_ZOOM ])

\* Camera::Camera(float posX, posY, posZ, upX, upY, upZ, yaw, pitch)
CameraScalar(posX, posY, posZ, upX, upY, upZ, yaw, pitch) ==
    updateCameraVectors(
        [ position |-> Vec3(posX, posY, posZ),
          front |-> Vec3(0, 0, -Scale),
          up |-> NaNVec,
          right |-> NaNVec,
          worldUp |-> Vec3(upX, upY, upZ),
          yaw |-> yaw,
          pitch |-> pitch,
          movementSpeed |-> DEFAULT_SPEED,
          mouseSensitivity |-> DEFAULT_SENSITIVITY,
          zoom |-> DEFAULT_ZOOM ])

\* glm::lookAt(eye, center, up), kept as the application of lookAt to its arguments
LookAt(eye, center, up) == [eye |-> eye, center |-> center, up |-> up]

\* Camera::GetViewMatrix
GetViewMatrix(c) == LookAt(c.position, VecAdd(c.position, VecScale(c.front, 100)), c.up)

\* processKeyboard with the sign of LEFT slipped
processKeyboardLeftAdds(c, direction, dt) ==
    LET velocity == c.movementSpeed * dt
        p1 == IF direction = "FORWARD"
              THEN VecAdd(c.position, VecScale(c.front, velocity)) ELSE c.position
        p2 == IF direction = "BACKWARD"
              THEN VecSub(p1, VecScale(c.front, velocity)) ELSE p1
        p3 == IF direction = "LEFT"
              THEN VecAdd(p2, VecScale(c.right, velocity)) ELSE p2
        p4 == IF direction = "RIGHT"
              THEN VecAdd(p3, VecScale(c.right, velocity)) ELSE p3
    IN [c EXCEPT !.position = p4]

\* Camera::processKeyboard
processKeyboard(c, direction, dt) ==
    LET velocity == c.movementSpeed * dt
        p1 == IF direction = "FORWARD"
              THEN VecAdd(c.position, VecScale(c.front, velocity)) ELSE c.position
        p2 == IF direction = "BACKWARD"
              THEN VecSub(p1, VecScale(c.front, velocity)) ELSE p1
        p3 == IF direction = "LEFT"
              THEN VecSub(p2, VecScale(c.right, velocity)) ELSE p2
        p4 == IF direction = "RIGHT"
              THEN VecAdd(p3, VecScale(c.right, velocity)) ELSE p3
    IN [c EXCEPT !.position = p4]

\* processMouseMovement without the lower clamp
processMouseMovementUpperClampOnly(c, xoffset, yoffset, invertPitch, constrainPitch) ==
    LET xo == xoffset * c.mouseSensitivity
        yo == yoffset * c.mouseSensitivity
        yaw1 == c.yaw + xo
        pitch1 == c.pitch + yo
        pitch2 == IF constrainPitch /\ pitch1 > PitchMax THEN PitchMax ELSE pitch1
    IN updateCameraVectors([c EXCEPT !.yaw = yaw1, !.pitch = pitch2])

\* processMouseMovement with the sensitivity added to the offsets instead of scaling them
processMouseMovementAddsSensitivity(c, xoffset, yoffset, invertPitch, constrainPitch) ==
    LET xo == xoffset + c.mouseSensitivity
        yo == yoffset + c.mouseSensitivity
        yaw1 == c.yaw + xo
        pitch1 == c.pitch + yo
        pitch2 == IF constrainPitch /\ pitch1 > PitchMax THEN PitchMax ELSE pitch1
        pitch3 == IF constrainPitch /\ pitch2 < -PitchMax THEN -PitchMax ELSE pitch2
    IN updateCameraVectors([c EXCEPT !.yaw = yaw1, !.pitch = pitch3])

\* Camera::processMouseMovement; invertPitch is never read by the body
processMouseMovement(c, xoffset, yoffset, invertPitch, constrainPitch) ==
    LET xo == xoffset * c.mouseSensitivity
        yo == yoffset * c.mouseSensitivity
        yaw1 == c.yaw + xo
        pitch1 == c.pitch + yo
        pitch2 == IF constrainPitch /\ pitch1 > PitchMax THEN PitchMax ELSE pitch1
        pitch3 == IF constrainPitch /\ pitch2 < -PitchMax THEN -PitchMax ELSE pitch2
    IN updateCameraVectors([c EXCEPT !.yaw = yaw1, !.pitch = pitch3])

\* processMouseScroll without the lower clamp
processMouseScrollUpperClampOnly(c, yoffset, constrainZoom) ==
    LET z1 == c.zoom - yoffset
    IN IF ~constrainZoom THEN [c EXCEPT !.zoom = z1]
       ELSE LET z3 == IF z1 > ZoomMax THEN ZoomMax ELSE z1
            IN [c EXCEPT !.zoom = z3]

\* processMouseScroll that also slows or speeds the movement
processMouseScrollChangesSpeed(c, yoffset, constrainZoom) ==
    LET z1 == c.zoom - yoffset
        s1 == c.movementSpeed - yoffset
    IN IF ~constrainZoom THEN [c EXCEPT !.zoom = z1, !.movementSpeed = s1]
       ELSE LET z2 == IF z1 < ZoomMin THEN ZoomMin ELSE z1
                z3 == IF z2 > ZoomMax THEN ZoomMax ELSE z2
            IN [c EXCEPT !.zoom = z3, !.movementSpeed = s1]

\* Camera::processMouseScroll
processMouseScroll(c, yoffset, constrainZoom) ==
    LET z1 == c.zoom - yoffset
    IN IF ~constrainZoom THEN [c EXCEPT !.zoom = z1]
       ELSE LET z2 == IF z1 < ZoomMin THEN ZoomMin ELSE z1
                z3 == IF z2 > ZoomMax THEN ZoomMax ELSE z2
            IN [c EXCEPT !.zoom = z3]

---------------------------------------------------------------------------
(* Inputs *)

Directions == {"FORWARD", "BACKWARD", "LEFT", "RIGHT"}

DeltaTimes == {0, 2}

XOffsets == {0, 130}

YOffsets == {-490, 0, 490}

ScrollOffsets == {-3, 50}

InitYaws == {-900, 200}

InitPitches == {-1000, 450}

InitPositions == {Vec3(0, 0, 0), Vec3(0, 0, 3 * PosUnit)}

\* glm::perspective(glm::radians(fovy), aspectRatio, zNear, zFar) with the fixed
\* aspect ratio and planes of main, kept as the application to its field of view
Perspective(fovy) == [fovy |-> fovy]

---------------------------------------------------------------------------
(* The class under an arbitrary client: any constructor, then any calls *)

ClientInit ==
    /\ camera \in {CameraVec(p, WorldUpY, DEFAULT_YAW, DEFAULT_PITCH) : p \in InitPositions}
              \cup {CameraScalar(0, 0, 3 * PosUnit, 0, Scale, 0, y, p) :
                        y \in InitYaws, p \in InitPitches}
    /\ view = GetViewMatrix(camera)
    /\ projection = Perspective(MainFov)
    /\ deltaTime = 0
    /\ lastFrame = 0
    /\ firstMouse = TRUE
    /\ lastX = WIDTH \div 2
    /\ lastY = HEIGHT \div 2
    /\ shouldClose = FALSE
    /\ pc = "Camera"
    /\ mouseLog = << >>
    /\ scrollLog = << >>
    /\ calls = 0

CallGetViewMatrix ==
    /\ calls < MaxCalls
    /\ calls' = calls + 1
    /\ view' = GetViewMatrix(camera)
    /\ pc' = "GetViewMatrix"
    /\ UNCHANGED <<camera, appVars>>

CallProcessKeyboard(direction, dt) ==
    /\ calls < MaxCalls
    /\ calls' = calls + 1
    /\ camera' = processKeyboard(camera, direction, dt)
    /\ pc' = "processKeyboard"
    /\ UNCHANGED <<view, appVars>>

CallProcessMouseMovement(xoffset, yoffset, invertPitch, constrainPitch) ==
    /\ calls < MaxCalls
    /\ calls' = calls + 1
    /\ camera' = processMouseMovement(camera, xoffset, yoffset, invertPitch, constrainPitch)
    /\ pc' = "processMouseMovement"
    /\ UNCHANGED <<view, appVars>>

CallProcessMouseScroll(yoffset, constrainZoom) ==
    /\ calls < MaxCalls
    /\ calls' = calls + 1
    /\ camera' = processMouseScroll(camera, yoffset, constrainZoom)
    /\ pc' = "processMouseScroll"
    /\ UNCHANGED <<view, appVars>>

ClientNext ==
    \/ CallGetViewMatrix
    \/ \E d \in Directions, dt \in DeltaTimes : CallProcessKeyboard(d, dt)
    \/ \E x \in XOffsets, y \in YOffsets, i \in BOOLEAN, k \in BOOLEAN :
           CallProcessMouseMovement(x, y, i, k)
    \/ \E y \in ScrollOffsets, k \in BOOLEAN : CallProcessMouseScroll(y, k)

Spec == ClientInit /\ [][ClientNext]_vars

---------------------------------------------------------------------------
(* The application (main.cpp): one thread running the render loop; GLFW    *)
(* runs the cursor and scroll callbacks inside glfwPollEvents.             *)

KeySets == { {}, {"W", "D"}, {"S", "A"}, {"ESCAPE"} }

\* what glfwGetTime may have advanced by between two frames
TimeSteps == {1, 2}

CursorPositions == { <<300, 300>>, <<350, 250>>, <<400, 800>> }

\* the globals of main.cpp and the state of main when it first tests the loop condition
AppInit ==
    /\ camera = [CameraVec(Vec3(0, 0, 3 * PosUnit), WorldUpY, DEFAULT_YAW, DEFAULT_PITCH)
                     EXCEPT !.mouseSensitivity = MainSensitivity,
                            !.movementSpeed = MainSpeed]
    /\ view = GetViewMatrix(camera)
    /\ projection = Perspective(MainFov)
    /\ deltaTime = 0
    /\ lastFrame = 0
    /\ firstMouse = TRUE
    /\ lastX = WIDTH \div 2
    /\ lastY = HEIGHT \div 2
    /\ shouldClose = FALSE
    /\ pc = "processInput"
    /\ mouseLog = << >>
    /\ scrollLog = << >>
    /\ calls = 0

\* processInput(window), called at the top of an iteration; keys is the set of keys down
ProcessInput(keys) ==
    /\ pc = "processInput"
    /\ shouldClose' = (shouldClose \/ "ESCAPE" \in keys)
    /\ LET c1 == IF "W" \in keys THEN processKeyboard(camera, "FORWARD", deltaTime) ELSE camera
           c2 == IF "S" \in keys THEN processKeyboard(c1, "BACKWARD", deltaTime) ELSE c1
           c3 == IF "A" \in keys THEN processKeyboard(c2, "LEFT", deltaTime) ELSE c2
           c4 == IF "D" \in keys THEN processKeyboard(c3, "RIGHT", deltaTime) ELSE c3
       IN camera' = c4
    /\ pc' = "render"
    /\ UNCHANGED <<view, projection, deltaTime, lastFrame, firstMouse, lastX, lastY,
                   mouseLog, scrollLog, calls>>

\* the body of the loop with the view matrix left as it was computed before the loop
RenderStaleView(currentFrame) ==
    /\ pc = "render"
    /\ currentFrame <= MaxTime
    /\ deltaTime' = currentFrame - lastFrame
    /\ lastFrame' = currentFrame
    /\ projection' = Perspective(camera.zoom)
    /\ view' = view
    /\ pc' = "pollEvents"
    /\ UNCHANGED <<camera, firstMouse, lastX, lastY, shouldClose, mouseLog, scrollLog, calls>>

\* the body of the loop from glClearColor to the draw calls; currentFrame is glfwGetTime()
Render(currentFrame) ==
    /\ pc = "render"
    /\ currentFrame <= MaxTime
    /\ deltaTime' = currentFrame - lastFrame
    /\ lastFrame' = currentFrame
    /\ projection' = Perspective(camera.zoom)
    /\ view' = GetViewMatrix(camera)
    /\ pc' = "pollEvents"
    /\ UNCHANGED <<camera, firstMouse, lastX, lastY, shouldClose, mouseLog, scrollLog, calls>>

\* mouse_callback without the firstMouse branch
MouseCallbackNoFirstMouse(xpos, ypos) ==
    /\ pc = "pollEvents"
    /\ Len(mouseLog) < MaxMouseEvents
    /\ LET xoffset == xpos - lastX
           yoffset == lastY - ypos
       IN /\ firstMouse' = FALSE
          /\ lastX' = xpos
          /\ lastY' = ypos
          /\ camera' = processMouseMovement(camera, xoffset, yoffset, TRUE, TRUE)
          /\ mouseLog' = Append(mouseLog, [xpos |-> xpos, ypos |-> ypos,
                                           xoffset |-> xoffset, yoffset |-> yoffset])
    /\ UNCHANGED <<view, projection, deltaTime, lastFrame, shouldClose, pc, scrollLog, calls>>

\* mouse_callback(window, xpos, ypos), run by glfwPollEvents
MouseCallback(xpos, ypos) ==
    /\ pc = "pollEvents"
    /\ Len(mouseLog) < MaxMouseEvents
    /\ LET lastX1 == IF firstMouse THEN xpos ELSE lastX
           lastY1 == IF firstMouse THEN ypos ELSE lastY
           xoffset == xpos - lastX1
           yoffset == lastY1 - ypos
       IN /\ firstMouse' = FALSE
          /\ lastX' = xpos
          /\ lastY' = ypos
          /\ camera' = processMouseMovement(camera, xoffset, yoffset, TRUE, TRUE)
          /\ mouseLog' = Append(mouseLog, [xpos |-> xpos, ypos |-> ypos,
                                           xoffset |-> xoffset, yoffset |-> yoffset])
    /\ UNCHANGED <<view, projection, deltaTime, lastFrame, shouldClose, pc, scrollLog, calls>>

\* the scroll callback leaving constrainZoom at its default
ScrollCallbackConstrained(yoffset) ==
    /\ pc = "pollEvents"
    /\ Len(scrollLog) < MaxScrollEvents
    /\ camera' = processMouseScroll(camera, yoffset, TRUE)
    /\ scrollLog' = Append(scrollLog, yoffset)
    /\ UNCHANGED <<view, projection, deltaTime, lastFrame, firstMouse, lastX, lastY,
                   shouldClose, pc, mouseLog, calls>>

\* the scroll callback lambda, run by glfwPollEvents
ScrollCallback(yoffset) ==
    /\ pc = "pollEvents"
    /\ Len(scrollLog) < MaxScrollEvents
    /\ camera' = processMouseScroll(camera, yoffset, FALSE)
    /\ scrollLog' = Append(scrollLog, yoffset)
    /\ UNCHANGED <<view, projection, deltaTime, lastFrame, firstMouse, lastX, lastY,
                   shouldClose, pc, mouseLog, calls>>

\* glfwPollEvents returns and the loop condition is tested again
EndPollEvents ==
    /\ pc = "pollEvents"
    /\ pc' = IF shouldClose THEN "done" ELSE "processInput"
    /\ UNCHANGED <<camera, view, projection, deltaTime, lastFrame, firstMouse, lastX, lastY,
                   shouldClose, mouseLog, scrollLog, calls>>

AppNext ==
    \/ \E keys \in KeySets : ProcessInput(keys)
    \/ \E d \in TimeSteps : Render(lastFrame + d)
    \/ \E p \in CursorPositions : MouseCallback(p[1], p[2])
    \/ \E y \in ScrollOffsets : ScrollCallback(y)
    \/ EndPollEvents

AppSpec == AppInit /\ [][AppNext]_vars

---------------------------------------------------------------------------
(* Orientation alone: constructions over a grid of angles, then constrained *)
(* mouse movements                                                          *)

YawGrid == {-1800 + 310 * k : k \in 0..11}

PitchGrid == {-890, -889, -700, -450, -10, 0, 1, 300, 600, 888, 890}

OrientInit ==
    /\ camera \in {CameraVec(Vec3(0, 0, 0), WorldUpY, y, p) : y \in YawGrid, p \in PitchGrid}
    /\ view = GetViewMatrix(camera)
    /\ projection = Perspective(MainFov)
    /\ deltaTime = 0
    /\ lastFrame = 0
    /\ firstMouse = TRUE
    /\ lastX = WIDTH \div 2
    /\ lastY = HEIGHT \div 2
    /\ shouldClose = FALSE
    /\ pc = "Camera"
    /\ mouseLog = << >>
    /\ scrollLog = << >>
    /\ calls = 0

OrientNext ==
    \E x \in XOffsets, y \in {-70, 0, 490}, i \in BOOLEAN :
        CallProcessMouseMovement(x, y, i, TRUE)

OrientSpec == OrientInit /\ [][OrientNext]_vars

\* how far, in units of 1/Scale, a length may be from 1 and a dot product from 0
Tolerance == Scale \div 200

UnitLength(v) == Abs(Dot(v, v) - Scale * Scale) <= 2 * Scale * Tolerance

Orthogonal(a, b) == Abs(Dot(a, b)) <= Scale * Tolerance

Clamp(x, lo, hi) == IF x < lo THEN lo ELSE IF x > hi THEN hi ELSE x

PitchInRange(c) == -PitchMax <= c.pitch /\ c.pitch <= PitchMax

\* C8: after construction and after every processMouseMovement call, with pitch in
\* [-89, 89] and worldUp = (0,1,0), front, right and up have length 1 and are pairwise
\* orthogonal (within Tolerance), right = normalize(cross(front, worldUp)) and
\* up = normalize(cross(right, front)).
C8_Orthonormal ==
    (PitchInRange(camera) /\ camera.worldUp = WorldUpY) =>
        /\ UnitLength(camera.front)
        /\ UnitLength(camera.right)
        /\ UnitLength(camera.up)
        /\ Orthogonal(camera.front, camera.right)
        /\ Orthogonal(camera.front, camera.up)
        /\ Orthogonal(camera.right, camera.up)
        /\ camera.right = Normalize(Cross(camera.front, camera.worldUp))
        /\ camera.up = Normalize(Cross(camera.right, camera.front))

\* a camera looking almost straight up after a clamped mouse movement
C8_Witness ==
    /\ pc = "processMouseMovement"
    /\ camera.pitch = PitchMax
    /\ camera.worldUp = WorldUpY
    /\ camera.yaw \notin YawGrid

---------------------------------------------------------------------------
(* Claims about the class, checked under Spec *)

\* C1: after every processMouseMovement call that passes constrainPitch = true, from any
\* camera state (pitch in or out of range), with any offsets and either invertPitch,
\* pitch lies in [-89, 89].
C1_PitchConstrained ==
    \A x \in XOffsets, y \in YOffsets, i \in BOOLEAN :
        PitchInRange(processMouseMovement(camera, x, y, i, TRUE))

\* a pitch that only the lower clamp can produce
C1_Witness ==
    /\ pc = "processMouseMovement"
    /\ camera.pitch = -PitchMax

\* C2: after every processMouseScroll call that passes constrainZoom = true, from any
\* zoom, zoom lies in [1, 45] and equals clamp(zoom - yOffset, 1, 45); from zoom = 45,
\* processMouseScroll(50, true) gives zoom = 1.
C2_ZoomConstrained ==
    /\ \A y \in ScrollOffsets \cup {0, 10} :
         LET z == processMouseScroll(camera, y, TRUE).zoom
         IN /\ ZoomMin <= z /\ z <= ZoomMax
            /\ z = Clamp(camera.zoom - y, ZoomMin, ZoomMax)
    /\ camera.zoom = 45 => processMouseScroll(camera, 50, TRUE).zoom = 1

\* zoom 1 after a single call: 45 - 50 clamped
C2_Witness ==
    /\ pc = "processMouseScroll"
    /\ calls = 1
    /\ camera.zoom = ZoomMin

\* C3: two processMouseMovement calls from the same state with the same non-zero yOffset
\* that differ only in invertPitch, and whose results are not clamped, change pitch by
\* amounts of opposite sign.
C3_InvertPitchFlipsSign ==
    \A y \in YOffsets \ {0}, k \in BOOLEAN :
        LET a == processMouseMovement(camera, 0, y, TRUE, k).pitch - camera.pitch
            b == processMouseMovement(camera, 0, y, FALSE, k).pitch - camera.pitch
            d == y * camera.mouseSensitivity
        IN (/\ -PitchMax < camera.pitch + d /\ camera.pitch + d < PitchMax
            /\ -PitchMax < camera.pitch - d /\ camera.pitch - d < PitchMax)
           => (a # 0 /\ a = -b)

ZeroMove == processMouseMovement(camera, 0, 0, TRUE, TRUE)

SameOrientation(c1, c2) ==
    /\ c1.yaw = c2.yaw
    /\ c1.pitch = c2.pitch
    /\ c1.front = c2.front
    /\ c1.right = c2.right
    /\ c1.up = c2.up

\* C4 as stated: from every reachable camera state, processMouseMovement(0, 0) with its
\* default flags leaves yaw, pitch, front, right and up unchanged.
C4_ZeroMoveNoOp == SameOrientation(ZeroMove, camera)

\* C4 as amended: from every reachable camera state whose pitch lies in [-89, 89],
\* processMouseMovement(0, 0) with its default flags leaves yaw, pitch, front, right and
\* up unchanged; from a state whose pitch lies outside, it leaves yaw unchanged and
\* clamps pitch to the nearer of -89 and 89.
C4_ZeroMoveNoOpInRange ==
    /\ PitchInRange(camera) => SameOrientation(ZeroMove, camera)
    /\ ZeroMove.yaw = camera.yaw
    /\ ZeroMove.pitch = Clamp(camera.pitch, -PitchMax, PitchMax)

\* a camera turned by an unclamped mouse movement, pitch strictly inside the range
C4_Witness ==
    /\ pc = "processMouseMovement"
    /\ camera.yaw \notin InitYaws \cup {DEFAULT_YAW}
    /\ -PitchMax < camera.pitch /\ camera.pitch < PitchMax
    /\ camera.pitch \notin InitPitches \cup {DEFAULT_PITCH}

\* C5: a movement call followed immediately by the opposite one with the same deltaTime
\* returns position to its original value (Forward/Backward, Left/Right), because
\* Forward adds front*v, Backward subtracts front*v, Left subtracts right*v and Right
\* adds right*v, with v = movementSpeed * deltaTime.
C5_MovementRoundTrip ==
    \A dt \in DeltaTimes \cup {1, 7} :
        LET v == camera.movementSpeed * dt
            step(d) == processKeyboard(camera, d, dt)
        IN /\ step("FORWARD").position = VecAdd(camera.position, VecScale(camera.front, v))
           /\ step("BACKWARD").position = VecSub(camera.position, VecScale(camera.front, v))
           /\ step("LEFT").position = VecSub(camera.position, VecScale(camera.right, v))
           /\ step("RIGHT").position = VecAdd(camera.position, VecScale(camera.right, v))
           /\ processKeyboard(step("FORWARD"), "BACKWARD", dt).position = camera.position
           /\ processKeyboard(step("BACKWARD"), "FORWARD", dt).position = camera.position
           /\ processKeyboard(step("LEFT"), "RIGHT", dt).position = camera.position
           /\ processKeyboard(step("RIGHT"), "LEFT", dt).position = camera.position

\* a camera that has moved and turned, from which a further step does move it
C5_Witness ==
    /\ pc = "processKeyboard"
    /\ camera.position \notin InitPositions
    /\ camera.yaw \notin InitYaws \cup {DEFAULT_YAW}
    /\ processKeyboard(camera, "LEFT", 2).position # camera.position
    /\ processKeyboard(camera, "FORWARD", 2).position # camera.position

\* C7: processKeyboard changes position only; processMouseScroll changes zoom only;
\* processMouseMovement leaves position and zoom unchanged; GetViewMatrix changes no
\* field; no operation changes worldUp, movementSpeed or mouseSensitivity.  (pc' names
\* the member function the step called.)
C7_FrameEffects ==
    [][ /\ pc' = "processKeyboard" => camera' = [camera EXCEPT !.position = camera'.position]
        /\ pc' = "processMouseScroll" => camera' = [camera EXCEPT !.zoom = camera'.zoom]
        /\ pc' = "processMouseMovement" =>
              (camera'.position = camera.position /\ camera'.zoom = camera.zoom)
        /\ pc' = "GetViewMatrix" => camera' = camera
        /\ camera'.worldUp = camera.worldUp
        /\ camera'.movementSpeed = camera.movementSpeed
        /\ camera'.mouseSensitivity = camera.mouseSensitivity ]_vars

\* a camera that a movement and then a scroll have acted on
C7_Witness ==
    /\ pc = "processMouseScroll"
    /\ calls = 2
    /\ camera.position \notin InitPositions
    /\ camera.zoom # DEFAULT_ZOOM

---------------------------------------------------------------------------
(* Claims about the application, checked under AppSpec *)

CameraChanged == camera' # camera

\* C6 as stated: every call that mutates the Camera as a result of input handled in an
\* iteration (keyboard movement, cursor callback, scroll callback) happens before that
\* iteration's GetViewMatrix call, that is, in processInput at the top of the iteration.
C6_InputBeforeView == [][CameraChanged => pc = "processInput"]_vars

\* C6 as amended: in every iteration the keyboard movement calls of processInput happen
\* before that iteration's GetViewMatrix call, which reads the camera as they left it;
\* the cursor and scroll callbacks run inside glfwPollEvents, after that iteration's
\* GetViewMatrix call, change no position, and leave the view matrix of the frame as it
\* was drawn.
C6_KeyboardBeforeViewCallbacksAfter ==
    [][ /\ camera'.position # camera.position => pc = "processInput"
        /\ (CameraChanged /\ camera'.position = camera.position) => pc = "pollEvents"
        /\ pc = "processInput" => (pc' = "render" /\ view' = view)
        /\ pc = "render" =>
              /\ camera' = camera
              /\ view' = LookAt(camera.position,
                                VecAdd(camera.position, VecScale(camera.front, 100)),
                                camera.up)
              /\ pc' = "pollEvents"
        /\ pc = "pollEvents" => view' = view ]_vars

\* during glfwPollEvents: the frame's view shows the keyboard movement made in this and
\* earlier iterations, and a cursor callback has since turned the camera
C6_Witness ==
    /\ pc = "pollEvents"
    /\ camera.position # Vec3(0, 0, 3 * PosUnit)
    /\ view.eye = camera.position
    /\ view.up # camera.up

RECURSIVE SumSeq(_)
SumSeq(q) == IF q = << >> THEN 0 ELSE Head(q) + SumSeq(Tail(q))

XOffsetsPassed == [i \in 1..Len(mouseLog) |-> mouseLog[i].xoffset]

YOffsetsPassed == [i \in 1..Len(mouseLog) |-> mouseLog[i].yoffset]

\* C9: the first cursor event is passed to the camera with offsets (0, 0) whatever the
\* cursor position, and changes neither yaw nor pitch; every later event is passed with
\* xoffset = xpos - previous xpos and yoffset = previous ypos - ypos; so the offsets
\* passed sum to the displacement from the first to the last cursor position (y negated).
C9_CursorOffsets ==
    LET n == Len(mouseLog)
    IN /\ n >= 1 => (mouseLog[1].xoffset = 0 /\ mouseLog[1].yoffset = 0)
       /\ n = 1 => (camera.yaw = DEFAULT_YAW /\ camera.pitch = DEFAULT_PITCH)
       /\ \A i \in 2..n :
            /\ mouseLog[i].xoffset = mouseLog[i].xpos - mouseLog[i - 1].xpos
            /\ mouseLog[i].yoffset = mouseLog[i - 1].ypos - mouseLog[i].ypos
       /\ n >= 1 =>
            /\ SumSeq(XOffsetsPassed) = mouseLog[n].xpos - mouseLog[1].xpos
            /\ SumSeq(YOffsetsPassed) = -(mouseLog[n].ypos - mouseLog[1].ypos)
            /\ lastX = mouseLog[n].xpos
            /\ lastY = mouseLog[n].ypos
       /\ camera.yaw = DEFAULT_YAW + camera.mouseSensitivity * SumSeq(XOffsetsPassed)

\* a first event away from the window centre, then an event that moved the cursor
C9_Witness ==
    /\ Len(mouseLog) >= 2
    /\ mouseLog[1].xpos # WIDTH \div 2
    /\ mouseLog[2].xoffset # 0
    /\ mouseLog[2].yoffset # 0
    /\ camera.yaw # DEFAULT_YAW

\* C10: the scroll callback calls the scroll operation with constrainZoom = false, so
\* camera.zoom is always 45 minus the sum of the scroll y-offsets, unclamped, and that
\* value is the field of view the render loop builds the projection from.
C10_ZoomUnclamped ==
    [][ /\ camera'.zoom = DEFAULT_ZOOM - SumSeq(scrollLog')
        /\ pc = "render" => projection' = [fovy |-> DEFAULT_ZOOM - SumSeq(scrollLog)] ]_vars

\* a projection built from a zoom outside [1, 45]
C10_Witness ==
    /\ scrollLog # << >>
    /\ (projection.fovy < ZoomMin \/ projection.fovy > ZoomMax)
    /\ projection.fovy = camera.zoom

=============================================================================
